---- MODULE Spec2Model ----
(***************************************************************************)
(* A model of the ETL pipeline: the sales transformer (a pure function of  *)
(* a raw batch, a rate table and the processing date), the database loader *)
(* and its transactions, the report generator, and the orchestrating       *)
(* main().                                                                 *)
(*                                                                         *)
(* Data representation.  A DataFrame is a record of its column names and   *)
(* the sequence of its rows; a row is a record of cells plus the pandas    *)
(* index label it was read under.  A cell is a tuple: the empty tuple is   *)
(* the missing value (NaN / NaT / None; an empty CSV field is read as      *)
(* NaN), a text cell is the tuple of its characters, a numeric cell is     *)
(* <<n>> and a datetime cell <<y, m, d>>.  Amounts are whole numbers; a    *)
(* rate is in hundredths (91 is 0.91).  A dict is the sequence of its      *)
(* <<key, value>> items in insertion order.                                *)
(***************************************************************************)
EXTENDS Integers, Sequences, FiniteSets, TLC

VARIABLES
    env,               \* the process environment read by load_config
    pc,                \* position of main() in the current run
    run,               \* number of runs started so far; also the clock
    result,            \* how main() ended: "none", "0", "1" or "raised"
    exc,               \* the exception that ended main(), as main logs it
    sales_data,        \* main: the raw batch read by CsvExtractor.extract
    exchange_rates,    \* main: the rate table of ExchangeRateExtractor.extract
    transformed_data,  \* main: the result of SalesTransformer.transform
    current_date,      \* datetime.now() of the run (the processing date)
    conn,              \* the backend connection of the run
    db,                \* the backend's committed tables (they outlive a run)
    txn_log,           \* the DatabaseTransaction scopes of the run, in order
    report_result,     \* what generate_reports returned: "none", "True", "False"
    report_log,        \* the steps of generate_reports that logged an error
    files,             \* the files written to the reports directory by the run
    csv_file,          \* the source file as the run found it: "unread", "present", "missing"
    api_response,      \* the rate source's answer while extract's result is being used
    call,              \* a direct call of one function: its name and arguments
    returned           \* the outcome of that call

vars == <<env, pc, run, result, exc, sales_data, exchange_rates, transformed_data,
          current_date, conn, db, txn_log, report_result, report_log, files,
          csv_file, api_response, call, returned>>

----------------------------------------------------------------------------
(* Bounds of the model. *)

MaxBatchLen == 2

MaxRuns == 2

----------------------------------------------------------------------------
(* Cells and text. *)

NA == <<>>

isna(x) == Len(x) = 0

notna(x) == Len(x) > 0

fillna(x, value) == IF isna(x) THEN value ELSE x

Unknown == <<"U", "n", "k", "n", "o", "w", "n">>

Uncategorized == <<"U", "n", "c", "a", "t", "e", "g", "o", "r", "i", "z", "e", "d">>

USD == <<"U", "S", "D">>

EUR == <<"E", "U", "R">>

GBP == <<"G", "B", "P">>

Digit == <<"0", "1", "2", "3", "4", "5", "6", "7", "8", "9">>

Upper == <<"A", "B", "C", "D", "E", "F", "G", "H", "I", "J", "K", "L", "M",
           "N", "O", "P", "Q", "R", "S", "T", "U", "V", "W", "X", "Y", "Z">>

Lower == <<"a", "b", "c", "d", "e", "f", "g", "h", "i", "j", "k", "l", "m",
           "n", "o", "p", "q", "r", "s", "t", "u", "v", "w", "x", "y", "z">>

\* The characters of the model in code-point order.
Alphabet == <<"-">> \o Digit \o Upper \o Lower

Ord(c) == CHOOSE i \in 1..Len(Alphabet) : Alphabet[i] = c

\* str.lower()
lower(s) ==
    [i \in 1..Len(s) |->
        IF \E j \in 1..Len(Upper) : Upper[j] = s[i]
        THEN Lower[CHOOSE j \in 1..Len(Upper) : Upper[j] = s[i]]
        ELSE s[i]]

\* s < t for str: the order of ORDER BY on a text column.
RECURSIVE TextLess(_, _)
TextLess(s, t) ==
    IF Len(t) = 0 THEN FALSE
    ELSE IF Len(s) = 0 THEN TRUE
    ELSE IF s[1] # t[1] THEN Ord(s[1]) < Ord(t[1])
    ELSE TextLess(Tail(s), Tail(t))

IsDigit(c) == \E i \in 1..10 : Digit[i] = c

DigitVal(c) == (CHOOSE i \in 1..10 : Digit[i] = c) - 1

RECURSIVE DigitsVal(_)
DigitsVal(s) ==
    IF Len(s) = 0 THEN 0
    ELSE 10 * DigitsVal(SubSeq(s, 1, Len(s) - 1)) + DigitVal(s[Len(s)])

AllDigits(s) == Len(s) > 0 /\ \A i \in 1..Len(s) : IsDigit(s[i])

RECURSIVE Pad(_, _)
Pad(n, width) ==
    IF width = 0 THEN <<>>
    ELSE Pad(n \div 10, width - 1) \o <<Digit[(n % 10) + 1]>>

----------------------------------------------------------------------------
(* pandas conversions used by the transformer. *)

IsLeap(y) == (y % 4 = 0 /\ y % 100 # 0) \/ y % 400 = 0

DaysInMonth(y, m) ==
    IF m = 2 THEN (IF IsLeap(y) THEN 29 ELSE 28)
    ELSE IF m \in {4, 6, 9, 11} THEN 30 ELSE 31

\* pd.to_datetime(text, errors='coerce') on ISO text: the datetime, or NaT.
to_datetime(text) ==
    IF /\ Len(text) = 10
       /\ text[5] = "-"
       /\ text[8] = "-"
       /\ AllDigits(SubSeq(text, 1, 4))
       /\ AllDigits(SubSeq(text, 6, 7))
       /\ AllDigits(SubSeq(text, 9, 10))
    THEN LET y == DigitsVal(SubSeq(text, 1, 4))
             m == DigitsVal(SubSeq(text, 6, 7))
             d == DigitsVal(SubSeq(text, 9, 10))
         IN  IF y >= 1 /\ m \in 1..12 /\ d >= 1 /\ d <= DaysInMonth(y, m)
             THEN <<y, m, d>>
             ELSE NA
    ELSE NA

\* x.strftime('%Y-%m')
strftime_Ym(x) == Pad(x[1], 4) \o <<"-">> \o Pad(x[2], 2)

\* x.strftime('%Y-%m-%d')
strftime_Ymd(x) == Pad(x[1], 4) \o <<"-">> \o Pad(x[2], 2) \o <<"-">> \o Pad(x[3], 2)

\* pd.to_numeric(text, errors='coerce') on integer text: the number, or NaN.
to_numeric(text) ==
    IF AllDigits(text) THEN <<DigitsVal(text)>>
    ELSE IF Len(text) > 1 /\ text[1] = "-" /\ AllDigits(Tail(text))
         THEN <<0 - DigitsVal(Tail(text))>>
         ELSE NA

\* df[col] = values, a value for every row.
SetCol(df, col, values) ==
    [columns |-> df.columns \cup {col},
     rows    |-> [i \in DOMAIN df.rows |-> (col :> values[i]) @@ df.rows[i]]]

\* df[col] = df[col].fillna(value)
fillna_column(df, col, value) ==
    SetCol(df, col, [i \in DOMAIN df.rows |-> fillna(df.rows[i][col], value)])

\* DataFrame.duplicated(subset=['order_id'], keep='first') of row i.
duplicated(rows, i) == \E j \in 1..(i - 1) : rows[j].order_id = rows[i].order_id

\* The rows from i on that are not marked as duplicates, in order.
RECURSIVE NotDuplicated(_, _)
NotDuplicated(rows, i) ==
    IF i > Len(rows) THEN <<>>
    ELSE (IF duplicated(rows, i) THEN <<>> ELSE <<rows[i]>>) \o NotDuplicated(rows, i + 1)

\* df.drop_duplicates(subset=['order_id']): keep defaults to 'first'.
drop_duplicates(df) == [columns |-> df.columns, rows |-> NotDuplicated(df.rows, 1)]

\* exchange_rates.get(key, default)
dict_get(d, key, default) ==
    IF \E i \in 1..Len(d) : d[i][1] = key
    THEN d[CHOOSE i \in 1..Len(d) : d[i][1] = key][2]
    ELSE default

----------------------------------------------------------------------------
(* SalesTransformer *)

\* 1.0, the default of exchange_rates.get(currency, 1.0), in hundredths.
DefaultRate == 100

\* inf and -inf: numbers that are not finite.  (nan is the missing value.)
PosInf == <<1, 0>>

NegInf == <<0 - 1, 0>>

isfinite(x) == Len(x) = 1

\* amount / rate.  By a zero rate, a Python float raises ZeroDivisionError;
\* a numpy.float64 (a float too) gives inf, -inf or nan with a warning.
true_divide(amount, rate, float64) ==
    IF rate # 0
    THEN [raised |-> FALSE, value |-> <<(amount[1] * 100) \div rate>>]
    ELSE IF ~float64
    THEN [raised |-> TRUE, value |-> NA]
    ELSE [raised |-> FALSE,
          value  |-> IF amount[1] > 0 THEN PosInf
                     ELSE IF amount[1] < 0 THEN NegInf ELSE NA]

\* A bug: USD amounts are divided by the table's rate for USD as well.
_convert_to_usd_of_no_usd_shortcut(amount, currency, rates, float64) ==
    IF isna(amount) \/ isna(currency) THEN [raised |-> FALSE, value |-> <<0>>]
    ELSE LET q == true_divide(amount, dict_get(rates, currency, DefaultRate), float64)
         IN  IF q.raised THEN [raised |-> FALSE, value |-> <<0>>] ELSE q

\* _convert_to_usd on an amount that is a Python float or a numpy.float64:
\* whether it raised, and what it returned.
_convert_to_usd_of(amount, currency, rates, float64) ==
    IF isna(amount) \/ isna(currency) THEN [raised |-> FALSE, value |-> <<0>>]
    ELSE IF currency = USD THEN [raised |-> FALSE, value |-> amount]
    ELSE LET rate == dict_get(rates, currency, DefaultRate)
             q    == true_divide(amount, rate, float64)
         IN  IF q.raised
             THEN [raised |-> FALSE, value |-> <<0>>]     \* caught: 0.0
             ELSE q

\* _convert_to_usd as transform calls it: apply(axis=1) hands the lambda a
\* row of Python objects, so the amount is a Python float.
_convert_to_usd(amount, currency, rates) ==
    _convert_to_usd_of(amount, currency, rates, FALSE).value

\* lambda x: x.strftime('%Y-%m') if pd.notna(x) else 'Unknown'
month_of(row) ==
    IF notna(row.order_date) THEN strftime_Ym(row.order_date) ELSE Unknown

\* A bug: the currency is left missing.
handle_missing_values_no_currency(df) ==
    LET t1 == fillna_column(df, "affiliate_name", Unknown)
    IN  fillna_column(t1, "category", Uncategorized)

\* "Handle missing values": the three fillna of the text columns.
handle_missing_values(df) ==
    LET t1 == fillna_column(df, "affiliate_name", Unknown)
        t2 == fillna_column(t1, "category", Uncategorized)
    IN  fillna_column(t2, "currency", USD)

\* A bug: the month is derived after the missing dates are filled.
standardize_dates_month_last(df, now) ==
    LET t1 == SetCol(df, "order_date", [i \in DOMAIN df.rows |-> to_datetime(df.rows[i].order_date)])
        t2 == fillna_column(t1, "order_date", now)
        t3 == SetCol(t2, "month", [i \in DOMAIN t2.rows |-> month_of(t2.rows[i])])
    IN  SetCol(t3, "order_date", [i \in DOMAIN t3.rows |-> strftime_Ymd(t3.rows[i].order_date)])

\* "Standardizing date format": parse, derive the month, then fill the
\* missing dates with the current date and format.
standardize_dates(df, now) ==
    LET t1 == SetCol(df, "order_date", [i \in DOMAIN df.rows |-> to_datetime(df.rows[i].order_date)])
        t2 == SetCol(t1, "month", [i \in DOMAIN t1.rows |-> month_of(t1.rows[i])])
        t3 == fillna_column(t2, "order_date", now)
    IN  SetCol(t3, "order_date", [i \in DOMAIN t3.rows |-> strftime_Ymd(t3.rows[i].order_date)])

\* The amounts as numbers, the missing and malformed ones 0.
numeric_amounts(df) ==
    LET t1 == SetCol(df, "sales_amount", [i \in DOMAIN df.rows |-> to_numeric(df.rows[i].sales_amount)])
    IN  fillna_column(t1, "sales_amount", <<0>>)

\* "Converting currencies to USD": the sales_amount_usd column.
convert_currencies(df, rates) ==
    SetCol(df, "sales_amount_usd",
           [i \in DOMAIN df.rows |->
               _convert_to_usd(df.rows[i].sales_amount, df.rows[i].currency, rates)])

transform(df, rates, now) ==
    drop_duplicates(
        convert_currencies(
            numeric_amounts(standardize_dates(handle_missing_values(df), now)),
            rates))

----------------------------------------------------------------------------
(* The backend: connection, cursor and DatabaseTransaction. *)

sqlite == <<"s", "q", "l", "i", "t", "e">>

postgresql == <<"p", "o", "s", "t", "g", "r", "e", "s", "q", "l">>

\* A database with no table: a new file, or a new server database.
EmptyDb ==
    [tables               |-> {},
     exchange_rates       |-> <<>>,
     sales                |-> <<>>,
     fact_affiliate_sales |-> <<>>,
     fact_category_sales  |-> <<>>,
     fact_monthly_sales   |-> <<>>]

\* The statement is accepted by the backend (its table exists).
statement_ok(d, stmt) == stmt.op = "create" \/ stmt.table \in d.tables

\* A bug: a conflicting sales row adds its amounts to the stored ones.
apply_statement_accumulates(d, stmt) ==
    IF stmt.op = "create"
    THEN [d EXCEPT !.tables = @ \cup {stmt.table}]
    ELSE IF stmt.key \notin DOMAIN d[stmt.table] \/ stmt.table # "sales"
    THEN [d EXCEPT ![stmt.table] = (stmt.key :> stmt.row) @@ @]
    ELSE [d EXCEPT ![stmt.table] =
             (stmt.key :> [stmt.row EXCEPT
                              !.sales_amount = <<@[1] + d.sales[stmt.key].sales_amount[1]>>,
                              !.sales_amount_usd =
                                  <<@[1] + d.sales[stmt.key].sales_amount_usd[1]>>])
             @@ @]

\* A bug: CREATE TABLE drops the table it finds and makes a new one.
apply_statement_recreates(d, stmt) ==
    IF stmt.op = "create"
    THEN [d EXCEPT !.tables = @ \cup {stmt.table}, ![stmt.table] = <<>>]
    ELSE IF stmt.op = "replace" \/ stmt.key \notin DOMAIN d[stmt.table]
    THEN [d EXCEPT ![stmt.table] = (stmt.key :> stmt.row) @@ @]
    ELSE [d EXCEPT ![stmt.table] =
             (stmt.key :> [c \in DOMAIN @[stmt.key] |->
                              IF c \in stmt.set THEN stmt.row[c] ELSE @[stmt.key][c]])
             @@ @]

\* The effect of one statement on a set of tables.
apply_statement(d, stmt) ==
    IF stmt.op = "create"
    THEN [d EXCEPT !.tables = @ \cup {stmt.table}]       \* CREATE TABLE IF NOT EXISTS
    ELSE IF stmt.op = "replace" \/ stmt.key \notin DOMAIN d[stmt.table]
    THEN [d EXCEPT ![stmt.table] = (stmt.key :> stmt.row) @@ @]
    ELSE \* ON CONFLICT (key) DO UPDATE SET the listed columns
         [d EXCEPT ![stmt.table] =
             (stmt.key :> [c \in DOMAIN @[stmt.key] |->
                              IF c \in stmt.set THEN stmt.row[c] ELSE @[stmt.key][c]])
             @@ @]

\* A bug: the connection is in autocommit mode, every statement takes effect
\* at once.
cursor_execute_autocommit(st, stmt, db_type) ==
    [committed |-> apply_statement(st.committed, stmt),
     working   |-> apply_statement(st.working, stmt),
     in_txn    |-> FALSE]

\* cursor.execute(stmt) on a connection whose committed tables, uncommitted
\* view and open-transaction flag are st.  psycopg2 opens a transaction with
\* any statement; sqlite3 opens one before an INSERT but not before a CREATE
\* TABLE, which outside a transaction takes effect at once.
cursor_execute(st, stmt, db_type) ==
    IF db_type = sqlite /\ stmt.op = "create" /\ ~st.in_txn
    THEN [committed |-> apply_statement(st.committed, stmt),
          working   |-> apply_statement(st.working, stmt),
          in_txn    |-> FALSE]
    ELSE [committed |-> st.committed,
          working   |-> apply_statement(st.working, stmt),
          in_txn    |-> TRUE]

\* The first n statements of the body, executed in order.
RECURSIVE execute_all(_, _, _, _)
execute_all(st, stmts, n, db_type) ==
    IF n = 0 THEN st
    ELSE cursor_execute(execute_all(st, stmts, n - 1, db_type), stmts[n], db_type)

\* The number of statements of the body that run before the body raises,
\* when the backend fails at statement fail_at + 1 (fail_at = Len(stmts):
\* it never fails) and refuses a statement on a table that does not exist.
RECURSIVE executed(_, _, _, _, _)
executed(st, stmts, fail_at, db_type, n) ==
    IF n >= Len(stmts) \/ n >= fail_at \/ ~statement_ok(st.working, stmts[n + 1])
    THEN n
    ELSE executed(cursor_execute(st, stmts[n + 1], db_type), stmts, fail_at, db_type, n + 1)

\* A bug: the scope commits what the body wrote before it raised.
DatabaseTransaction_exit_commits(st, raised) ==
    [db |-> st.working, end |-> IF raised THEN "rollback" ELSE "commit",
     propagates |-> raised]

\* A bug: a body that raised leaves the scope with neither commit nor
\* rollback.
DatabaseTransaction_exit_no_rollback(st, raised) ==
    IF ~raised
    THEN [db |-> st.working, end |-> "commit", propagates |-> FALSE]
    ELSE [db |-> st.committed, end |-> "open", propagates |-> TRUE]

\* A bug: the scope rolls back and swallows the exception (return True).
DatabaseTransaction_exit_suppresses(st, raised) ==
    IF ~raised
    THEN [db |-> st.working, end |-> "commit", propagates |-> FALSE]
    ELSE [db |-> st.committed, end |-> "rollback", propagates |-> FALSE]

\* DatabaseTransaction.__exit__: commit when the body raised nothing, else
\* roll back and let the exception through (return False).
DatabaseTransaction_exit(st, raised) ==
    IF ~raised
    THEN [db |-> st.working, end |-> "commit", propagates |-> FALSE]
    ELSE [db |-> st.committed, end |-> "rollback", propagates |-> TRUE]

\* with DatabaseTransaction(conn) as cursor: <stmts>
DatabaseTransaction(d, stmts, fail_at, db_type) ==
    LET st0    == [committed |-> d, working |-> d, in_txn |-> FALSE]
        n      == executed(st0, stmts, fail_at, db_type, 0)
        st     == execute_all(st0, stmts, n, db_type)
        raised == n < Len(stmts)
        out    == DatabaseTransaction_exit(st, raised)
    IN  [db |-> out.db, body_raised |-> raised, end |-> out.end,
         raised |-> raised /\ out.propagates, executed |-> n]

----------------------------------------------------------------------------
(* DatabaseLoader *)

CreateTable(name) == [op |-> "create", table |-> name]

_create_sqlite_tables(d, fail_at) ==
    DatabaseTransaction(d, <<CreateTable("exchange_rates"), CreateTable("sales")>>,
                        fail_at, sqlite)

_create_postgresql_tables(d, fail_at) ==
    DatabaseTransaction(d,
        <<CreateTable("exchange_rates"), CreateTable("sales"),
          CreateTable("fact_affiliate_sales"), CreateTable("fact_category_sales"),
          CreateTable("fact_monthly_sales")>>,
        fail_at, postgresql)

\* One scope of the transaction log: the write operation, the statements
\* its body executed, whether the body raised, how the scope ended, and how
\* the operation ended for its caller.
Scope(op, t, outcome) ==
    [op |-> op, executed |-> t.executed, body_raised |-> t.body_raised,
     end |-> t.end, outcome |-> outcome]

\* A bug: a type that is no dialect is served as the embedded dialect.
create_tables_defaults_to_sqlite(d, db_type, fail_at) ==
    LET t == IF db_type = postgresql THEN _create_postgresql_tables(d, fail_at)
             ELSE _create_sqlite_tables(d, fail_at)
    IN  [db |-> t.db, raised |-> t.raised, executed |-> t.executed,
         scopes |-> <<Scope("create_tables", t,
                            IF t.raised THEN "raised" ELSE "returned")>>]

\* create_tables: the tables afterwards, whether it raised, its scopes.
create_tables(d, db_type, fail_at) ==
    IF db_type \in {sqlite, postgresql}
    THEN LET t == IF db_type = sqlite THEN _create_sqlite_tables(d, fail_at)
                  ELSE _create_postgresql_tables(d, fail_at)
         IN  [db |-> t.db, raised |-> t.raised, executed |-> t.executed,
              scopes |-> <<Scope("create_tables", t,
                                 IF t.raised THEN "raised" ELSE "returned")>>]
    ELSE [db |-> d, raised |-> TRUE, executed |-> 0, scopes |-> <<>>]   \* ValueError

SalesColumns ==
    {"order_id", "affiliate_name", "sales_amount", "currency", "order_date",
     "category", "sales_amount_usd", "month"}

RateStatement(op, item, current_time) ==
    [op |-> op, table |-> "exchange_rates", key |-> item[1],
     set |-> {"rate", "updated_at"},
     row |-> [currency |-> item[1], rate |-> <<item[2]>>, updated_at |-> current_time]]

SalesStatement(op, row) ==
    [op |-> op, table |-> "sales", key |-> row.order_id,
     set |-> SalesColumns \ {"order_id"},
     row |-> [c \in SalesColumns |-> row[c]]]

\* The statements of a load, in the order the loops issue them.
LoadStatements(op, df, rates, current_time) ==
    [i \in 1..Len(rates) |-> RateStatement(op, rates[i], current_time)]
    \o [i \in 1..Len(df.rows) |-> SalesStatement(op, df.rows[i])]

_load_data_sqlite(d, df, rates, current_time, fail_at) ==
    DatabaseTransaction(d, LoadStatements("replace", df, rates, current_time),
                        fail_at, sqlite)

_load_data_postgresql(d, df, rates, current_time, fail_at) ==
    DatabaseTransaction(d, LoadStatements("on_conflict_update", df, rates, current_time),
                        fail_at, postgresql)

\* A bug: the load empties both tables before it writes the batch.
load_data_truncates(d, db_type, df, rates, current_time, fail_at) ==
    IF db_type \in {sqlite, postgresql}
    THEN LET e == [d EXCEPT !.sales = <<>>, !.exchange_rates = <<>>]
             t == IF db_type = sqlite
                  THEN _load_data_sqlite(e, df, rates, current_time, fail_at)
                  ELSE _load_data_postgresql(e, df, rates, current_time, fail_at)
         IN  [db |-> IF t.raised THEN d ELSE t.db, raised |-> t.raised,
              executed |-> t.executed,
              scopes |-> <<Scope("load_data", t,
                                 IF t.raised THEN "raised" ELSE "returned")>>]
    ELSE [db |-> d, raised |-> TRUE, executed |-> 0, scopes |-> <<>>]

\* load_data: the tables afterwards, whether it raised, its scopes.
load_data(d, db_type, df, rates, current_time, fail_at) ==
    IF db_type \in {sqlite, postgresql}
    THEN LET t == IF db_type = sqlite
                  THEN _load_data_sqlite(d, df, rates, current_time, fail_at)
                  ELSE _load_data_postgresql(d, df, rates, current_time, fail_at)
         IN  [db |-> t.db, raised |-> t.raised, executed |-> t.executed,
              scopes |-> <<Scope("load_data", t,
                                 IF t.raised THEN "raised" ELSE "returned")>>]
    ELSE [db |-> d, raised |-> TRUE, executed |-> 0, scopes |-> <<>>]   \* ValueError

----------------------------------------------------------------------------
(* ReportGenerator *)

RECURSIVE SumUsd(_, _)
SumUsd(table, ids) ==
    IF ids = {} THEN 0
    ELSE LET k == CHOOSE x \in ids : TRUE
         IN  table[k].sales_amount_usd[1] + SumUsd(table, ids \ {k})


\* SELECT col, SUM(sales_amount_usd) AS total_sales_usd FROM sales GROUP BY col
GroupTotals(table, col) ==
    {[key |-> g,
      total |-> SumUsd(table, {k \in DOMAIN table : table[k][col] = g})] :
        g \in {table[k][col] : k \in DOMAIN table}}

\* ORDER BY total_sales_usd DESC (equal totals: by key).
ByTotalDesc(x, y) ==
    x.total > y.total \/ (x.total = y.total /\ TextLess(x.key, y.key))

\* ORDER BY month
ByKey(x, y) == TextLess(x.key, y.key)

\* x comes before y in the ORDER BY of the grouping by col.
Before(col, x, y) == IF col = "month" THEN ByKey(x, y) ELSE ByTotalDesc(x, y)

\* The groups in the order of the query, as a sequence.
Ordered(S, col) ==
    [i \in 1..Cardinality(S) |->
        CHOOSE x \in S : Cardinality({y \in S : Before(col, y, x)}) = i - 1]

\* pd.read_sql_query of a grouping query: the result as a DataFrame.
GroupFrame(table, col) ==
    LET groups == Ordered(GroupTotals(table, col), col)
    IN  [columns |-> {col, "total_sales_usd"},
         rows    |-> [i \in 1..Len(groups) |->
                         (col :> groups[i].key)
                         @@ [index |-> i - 1, total_sales_usd |-> <<groups[i].total>>]]]

Min(S) == CHOOSE x \in S : \A y \in S : x <= y

Max(S) == CHOOSE x \in S : \A y \in S : x >= y

\* The overall summary query: one row; the aggregates of no row are NULL.
Summary(table) ==
    LET ids  == DOMAIN table
        usd  == {table[k].sales_amount_usd[1] : k \in ids}
        none == ids = {}
    IN  [total_orders        |-> <<Cardinality(ids)>>,
         total_sales_usd     |-> IF none THEN NA ELSE <<SumUsd(table, ids)>>,
         avg_order_value_usd |-> IF none THEN NA
                                 ELSE <<SumUsd(table, ids) \div Cardinality(ids)>>,
         min_order_value_usd |-> IF none THEN NA ELSE <<Min(usd)>>,
         max_order_value_usd |-> IF none THEN NA ELSE <<Max(usd)>>]

FactStatement(table, col, row, current_time) ==
    [op |-> "on_conflict_update", table |-> table, key |-> row[col],
     set |-> {"total_sales_usd", "last_updated"},
     row |-> (col :> row[col])
             @@ [total_sales_usd |-> row.total_sales_usd, last_updated |-> current_time]]

FactStatements(table, col, df, current_time) ==
    [i \in 1..Len(df.rows) |-> FactStatement(table, col, df.rows[i], current_time)]

\* _store_aggregated_data_in_postgres: the tables afterwards, the boolean it
\* returns (it catches every exception), its scopes.
_store_aggregated_data_in_postgres(d, frames, now, fail_at) ==
    LET stmts == FactStatements("fact_affiliate_sales", "affiliate_name", frames[1], now)
                 \o FactStatements("fact_category_sales", "category", frames[2], now)
                 \o FactStatements("fact_monthly_sales", "month", frames[3], now)
        t     == DatabaseTransaction(d, stmts, fail_at, postgresql)
    IN  [db |-> t.db, returned |-> IF t.raised THEN "False" ELSE "True",
         scopes |-> <<Scope("store_aggregates", t, "returned")>>]

\* _generate_pdf_report: the boolean it returns (it catches every exception)
\* and the document written.  Formatting a NULL summary value as currency
\* raises; so does a rendering fault.
_generate_pdf_report(summary, fault) ==
    IF fault \/ isna(summary.total_sales_usd)
    THEN [returned |-> "False", document |-> <<>>]
    ELSE [returned |-> "True", document |-> <<summary>>]

\* The first n of the three to_csv calls.
WriteCsv(fs, frames, n) ==
    [name \in {frames[i][1] : i \in 1..n} |->
        frames[CHOOSE i \in 1..n : frames[i][1] = name][2].rows] @@ fs

\* A bug: a failing query or export is not caught.
generate_reports_propagates(d, db_type, fs, current_time, f) ==
    [db |-> d, files |-> fs,
     returned |-> IF f.query \/ f.csv > 0 THEN "raised" ELSE "True",
     log |-> {}, scopes |-> <<>>]

\* generate_reports, with the faults f met on the way: f.query (a query
\* raises), f.csv (the f.csv-th to_csv raises; 0: none), f.store (the
\* aggregate store fails after f.store statements), f.pdf (rendering fails).
generate_reports(d, db_type, fs, current_time, f) ==
    IF f.query \/ "sales" \notin d.tables
    THEN [db |-> d, files |-> fs, returned |-> "False",
          log |-> {"generate_reports"}, scopes |-> <<>>]
    ELSE
    LET affiliate_sales == GroupFrame(d.sales, "affiliate_name")
        category_sales  == GroupFrame(d.sales, "category")
        monthly_sales   == GroupFrame(d.sales, "month")
        summary         == Summary(d.sales)
        frames == << <<"affiliate_sales.csv", affiliate_sales>>,
                     <<"category_sales.csv", category_sales>>,
                     <<"monthly_sales.csv", monthly_sales>> >>
    IN  IF f.csv > 0
        THEN [db |-> d, files |-> WriteCsv(fs, frames, f.csv - 1), returned |-> "False",
              log |-> {"generate_reports"}, scopes |-> <<>>]
        ELSE
        LET stored == IF db_type = postgresql
                      THEN _store_aggregated_data_in_postgres(
                               d, <<affiliate_sales, category_sales, monthly_sales>>,
                               current_time, f.store)
                      ELSE [db |-> d, returned |-> "True", scopes |-> <<>>]
            pdf == _generate_pdf_report(summary, f.pdf)
        IN  [db |-> stored.db,
             files |-> ("sales_report.pdf" :> pdf.document) @@ WriteCsv(fs, frames, 3),
             returned |-> "True",
             log |-> (IF stored.returned = "False" THEN {"store_aggregates"} ELSE {})
                     \cup (IF pdf.returned = "False" THEN {"pdf_report"} ELSE {}),
             scopes |-> stored.scopes]

----------------------------------------------------------------------------
(* Configuration and extractors *)

\* int(text) succeeds.
int_parses(text) ==
    AllDigits(text) \/ (Len(text) > 1 /\ text[1] \in {"-", "+"} /\ AllDigits(Tail(text)))

\* 'exchange_rate_fallback' of the configuration.
exchange_rate_fallback == << <<USD, 100>>, <<EUR, 91>>, <<GBP, 78>> >>

\* load_config(): the configuration, or raised (ValueError).
load_config(e) ==
    IF lower(e.DB_TYPE) = sqlite
    THEN [raised |-> FALSE, database |-> [type |-> sqlite]]
    ELSE IF lower(e.DB_TYPE) = postgresql
    THEN [raised |-> ~int_parses(e.PG_PORT), database |-> [type |-> postgresql]]
    ELSE [raised |-> TRUE, database |-> [type |-> NA]]

ExpectedColumns ==
    {"order_id", "affiliate_name", "sales_amount", "currency", "order_date", "category"}

\* pd.read_csv: the records of the file as a DataFrame with a RangeIndex.
read_csv(columns, records) ==
    [columns |-> columns,
     rows    |-> [i \in 1..Len(records) |-> [index |-> i - 1] @@ records[i]]]

\* A bug: only a request that raised falls back; a response without rates
\* yields no rate at all.
extract_rates_no_fallback_on_status(response, fallback_rates) ==
    IF response.error THEN fallback_rates ELSE response.rates

\* ExchangeRateExtractor.extract: the rates of a 200 response with a rates
\* field, else the fallback rates.
extract_rates(response, fallback_rates) ==
    IF ~response.error /\ response.status_code = 200 /\ response.has_rates
    THEN response.rates
    ELSE fallback_rates

\* get_database_connection: raises for an unsupported type, a missing
\* driver or parameter, or a failed connect.
get_database_connection(db_config, fault) ==
    IF lower(db_config.type) \in {sqlite, postgresql} /\ ~fault
    THEN [raised |-> FALSE]
    ELSE [raised |-> TRUE]

----------------------------------------------------------------------------
(* Inputs *)

Text_A == <<"A">>

Text_B == <<"B">>

Text_Tech == <<"T", "e", "c", "h">>

Text_100 == <<"1", "0", "0">>

Text_abc == <<"a", "b", "c">>

Text_date == <<"2", "0", "2", "4", "-", "0", "1", "-", "1", "5">>

\* Thirty days hath September: not a calendar date.
Text_baddate == <<"2", "0", "2", "4", "-", "0", "9", "-", "3", "1">>

OrderIds == {7, 8}

\* The records a file can hold: every combination of present, missing and
\* malformed fields.
RawRecords ==
    [order_id       : OrderIds,
     affiliate_name : {NA, Text_A, Text_B},
     sales_amount   : {NA, Text_100, Text_abc},
     currency       : {NA, USD, EUR},
     order_date     : {NA, Text_date, Text_baddate},
     category       : {NA, Text_Tech}]

\* The records of the files the pipeline runs read.
PipelineRecords ==
    [order_id       : OrderIds,
     affiliate_name : {Text_A},
     sales_amount   : {Text_100},
     currency       : {USD},
     order_date     : {Text_date},
     category       : {Text_Tech}]
    \cup
    [order_id       : OrderIds,
     affiliate_name : {Text_B},
     sales_amount   : {Text_100},
     currency       : {EUR},
     order_date     : {Text_baddate},
     category       : {NA}]

\* Records that differ in the fields a duplicate is told by.
DuplicateRecords ==
    [order_id       : OrderIds,
     affiliate_name : {NA, Text_A, Text_B},
     sales_amount   : {Text_100},
     currency       : {EUR},
     order_date     : {Text_date, Text_baddate},
     category       : {Text_Tech}]

Seqs(S, n) == UNION {[1..k -> S] : k \in 0..n}

\* The files of at most n records of S.
Batches(S, n) == {read_csv(ExpectedColumns, r) : r \in Seqs(S, n)}

\* The batches the transformer is checked on: every record alone, and every
\* file of up to MaxBatchLen records that may be duplicates of each other.
RawBatches(n) == Batches(RawRecords, 1) \cup Batches(DuplicateRecords, n)

\* A file without the category column.
BadFrame == read_csv(ExpectedColumns \ {"category"}, <<>>)

PipelineBatches(n) == Batches(PipelineRecords, n) \cup {BadFrame}

ApiRates == << <<USD, 100>>, <<EUR, 50>> >>

Responses ==
    {[error |-> FALSE, status_code |-> 200, has_rates |-> TRUE, rates |-> ApiRates],
     [error |-> FALSE, status_code |-> 200, has_rates |-> FALSE, rates |-> <<>>],
     [error |-> FALSE, status_code |-> 500, has_rates |-> FALSE, rates |-> <<>>],
     [error |-> TRUE, status_code |-> 0, has_rates |-> FALSE, rates |-> <<>>]}

RateTables == {extract_rates(r, exchange_rate_fallback) : r \in Responses}

Dates == {<<2024, 1, 20>>, <<2025, 3, 7>>}

Text_5432 == <<"5", "4", "3", "2">>

Environments ==
    {[DB_TYPE |-> sqlite, PG_PORT |-> Text_5432],
     [DB_TYPE |-> <<"P", "o", "s", "t", "g", "r", "e", "S", "Q", "L">>,
      PG_PORT |-> Text_5432],
     [DB_TYPE |-> postgresql, PG_PORT |-> Text_abc],
     [DB_TYPE |-> <<"m", "y", "s", "q", "l">>, PG_PORT |-> Text_5432]}

----------------------------------------------------------------------------
(* main(): one action per step. *)

NoFrame == read_csv({}, <<>>)

\* No request has been answered.
NoResponse == [error |-> FALSE, status_code |-> 0, has_rates |-> FALSE, rates |-> <<>>]

\* No function is called directly.
NoCall == [fn |-> "none"]

NotReturned == [done |-> FALSE]

\* datetime.now() during run r: the date, and the timestamp of a write.
ClockDate(r) == <<2025, 3, r>>

current_time == <<run>>

Config == load_config(env)

db_type == lower(Config.database.type)

Init ==
    /\ env \in Environments
    /\ pc = "idle"
    /\ run = 0
    /\ result = "none"
    /\ exc = "none"
    /\ sales_data = NoFrame
    /\ exchange_rates = <<>>
    /\ transformed_data = NoFrame
    /\ current_date = ClockDate(0)
    /\ conn = [state |-> "none", opened |-> 0, closed |-> 0]
    /\ db = EmptyDb
    /\ txn_log = <<>>
    /\ report_result = "none"
    /\ report_log = {}
    /\ files = <<>>
    /\ csv_file = "unread"
    /\ api_response = NoResponse
    /\ call = NoCall
    /\ returned = NotReturned

\* main() ends: with status "0" or "1", or "raised" when e escapes it.
\* Its locals die with it; the connection is left as it is.
Return(status, e) ==
    /\ pc' = "idle"
    /\ result' = status
    /\ exc' = e
    /\ sales_data' = NoFrame
    /\ exchange_rates' = <<>>
    /\ transformed_data' = NoFrame

\* The process is started (again).
StartRun ==
    /\ pc = "idle"
    /\ run < MaxRuns
    /\ pc' = "load_config"
    /\ run' = run + 1
    /\ result' = "none"
    /\ exc' = "none"
    /\ current_date' = ClockDate(run + 1)
    /\ conn' = [state |-> "none", opened |-> 0, closed |-> 0]
    /\ txn_log' = <<>>
    /\ report_result' = "none"
    /\ report_log' = {}
    /\ files' = <<>>
    /\ csv_file' = "unread"
    /\ api_response' = NoResponse
    /\ UNCHANGED <<call, returned>>
    /\ UNCHANGED <<env, sales_data, exchange_rates, transformed_data, db>>

\* config = load_config(), outside the try.
LoadConfig ==
    /\ pc = "load_config"
    /\ IF Config.raised
       THEN Return("raised", "load_config")
       ELSE /\ pc' = "configure_logging"
            /\ UNCHANGED <<result, exc, sales_data, exchange_rates, transformed_data>>
    /\ UNCHANGED <<csv_file, api_response, call, returned>>
    /\ UNCHANGED <<env, run, current_date, conn, db, txn_log, report_result,
                   report_log, files>>

\* configure_logging(...), outside the try.
ConfigureLogging ==
    /\ pc = "configure_logging"
    /\ \E fault \in BOOLEAN :
          IF fault
          THEN Return("raised", "configure_logging")
          ELSE /\ pc' = "extract_csv"
               /\ UNCHANGED <<result, exc, sales_data, exchange_rates, transformed_data>>
    /\ UNCHANGED <<csv_file, api_response, call, returned>>
    /\ UNCHANGED <<env, run, current_date, conn, db, txn_log, report_result,
                   report_log, files>>

\* A bug: a missing file is read as a file without records.
ExtractCsv_reads_missing_file ==
    /\ pc = "extract_csv"
    /\ \E exists \in BOOLEAN :
          /\ csv_file' = IF exists THEN "present" ELSE "missing"
          /\ sales_data' \in IF exists THEN PipelineBatches(MaxBatchLen)
                              ELSE {read_csv(ExpectedColumns, <<>>)}
          /\ pc' = "extract_rates"
          /\ UNCHANGED <<result, exc, exchange_rates, transformed_data>>
    /\ UNCHANGED <<api_response, call, returned>>
    /\ UNCHANGED <<env, run, current_date, conn, db, txn_log, report_result,
                   report_log, files>>

\* sales_data = csv_extractor.extract()
ExtractCsv ==
    /\ pc = "extract_csv"
    /\ \E exists \in BOOLEAN, fault \in BOOLEAN :
          /\ csv_file' = IF exists THEN "present" ELSE "missing"
          /\ IF ~exists
             THEN Return("1", "FileNotFoundError")
             ELSE IF fault
             THEN Return("1", "extract_csv")
             ELSE /\ sales_data' \in PipelineBatches(MaxBatchLen)
                  /\ pc' = "extract_rates"
                  /\ UNCHANGED <<result, exc, exchange_rates, transformed_data>>
    /\ UNCHANGED <<api_response, call, returned>>
    /\ UNCHANGED <<env, run, current_date, conn, db, txn_log, report_result,
                   report_log, files>>

\* exchange_rates = exchange_rate_extractor.extract()
ExtractRates ==
    /\ pc = "extract_rates"
    /\ api_response' \in Responses
    /\ exchange_rates' = extract_rates(api_response', exchange_rate_fallback)
    /\ pc' = "transform"
    /\ UNCHANGED <<csv_file, call, returned>>
    /\ UNCHANGED <<env, run, result, exc, sales_data, transformed_data, current_date,
                   conn, db, txn_log, report_result, report_log, files>>

\* transformed_data = transformer.transform(sales_data, exchange_rates)
\* A missing column raises (KeyError).  On a frame without rows, apply(axis=1)
\* gives an empty Series or a copy of the frame, by the pandas version; the
\* assignment of the copy to one column raises.
Transform ==
    /\ pc = "transform"
    /\ \E empty_raises \in BOOLEAN :
          IF \/ ~(ExpectedColumns \subseteq sales_data.columns)
             \/ (Len(sales_data.rows) = 0 /\ empty_raises)
          THEN Return("1", "transform")
          ELSE /\ transformed_data' = transform(sales_data, exchange_rates, current_date)
               /\ pc' = "connect"
               /\ UNCHANGED <<result, exc, sales_data, exchange_rates>>
    /\ api_response' = NoResponse
    /\ UNCHANGED <<csv_file, call, returned>>
    /\ UNCHANGED <<env, run, current_date, conn, db, txn_log, report_result,
                   report_log, files>>

\* conn = get_database_connection(db_config)
Connect ==
    /\ pc = "connect"
    /\ \E fault \in BOOLEAN :
          IF get_database_connection(Config.database, fault).raised
          THEN /\ Return("1", "connect")
               /\ UNCHANGED conn
          ELSE /\ conn' = [conn EXCEPT !.state = "open", !.opened = @ + 1]
               /\ pc' = "create_tables"
               /\ UNCHANGED <<result, exc, sales_data, exchange_rates, transformed_data>>
    /\ UNCHANGED <<csv_file, api_response, call, returned>>
    /\ UNCHANGED <<env, run, current_date, db, txn_log, report_result, report_log, files>>

\* loader.create_tables()
CreateTables ==
    /\ pc = "create_tables"
    /\ \E fail_at \in 0..5 :
          LET out == create_tables(db, db_type, fail_at)
          IN  /\ db' = out.db
              /\ txn_log' = txn_log \o out.scopes
              /\ IF out.raised
                 THEN Return("1", "create_tables")
                 ELSE /\ pc' = "load_data"
                      /\ UNCHANGED <<result, exc, sales_data, exchange_rates,
                                     transformed_data>>
    /\ UNCHANGED <<csv_file, api_response, call, returned>>
    /\ UNCHANGED <<env, run, current_date, conn, report_result, report_log, files>>

\* loader.load_data(transformed_data, exchange_rates)
LoadData ==
    /\ pc = "load_data"
    /\ \E fail_at \in 0..(Len(exchange_rates) + Len(transformed_data.rows)) :
          LET out == load_data(db, db_type, transformed_data, exchange_rates,
                               current_time, fail_at)
          IN  /\ db' = out.db
              /\ txn_log' = txn_log \o out.scopes
              /\ IF out.raised
                 THEN Return("1", "load_data")
                 ELSE /\ pc' = "report_init"
                      /\ UNCHANGED <<result, exc, sales_data, exchange_rates,
                                     transformed_data>>
    /\ UNCHANGED <<csv_file, api_response, call, returned>>
    /\ UNCHANGED <<env, run, current_date, conn, report_result, report_log, files>>

\* report_generator = ReportGenerator(...): creates the reports directory.
ReportInit ==
    /\ pc = "report_init"
    /\ \E fault \in BOOLEAN :
          IF fault
          THEN Return("1", "report_init")
          ELSE /\ pc' = "generate_reports"
               /\ UNCHANGED <<result, exc, sales_data, exchange_rates, transformed_data>>
    /\ UNCHANGED <<csv_file, api_response, call, returned>>
    /\ UNCHANGED <<env, run, current_date, conn, db, txn_log, report_result,
                   report_log, files>>

\* The faults generate_reports can meet, each combination once: a failing
\* query, a failing to_csv, or any of the n + 1 outcomes of an aggregate store
\* of n statements with a rendering that fails or not.
ReportFaults(n) ==
    {[query |-> TRUE, csv |-> 0, store |-> 0, pdf |-> FALSE]}
    \cup {[query |-> FALSE, csv |-> c, store |-> 0, pdf |-> FALSE] : c \in 1..3}
    \cup [query : {FALSE}, csv : {0}, store : 0..n, pdf : BOOLEAN]

\* The number of rows of the three aggregate results.
NumGroups(table) ==
    Cardinality({table[k].affiliate_name : k \in DOMAIN table})
    + Cardinality({table[k].category : k \in DOMAIN table})
    + Cardinality({table[k].month : k \in DOMAIN table})

\* report_generator.generate_reports(): the returned boolean is dropped; an
\* exception, if one came out of it, would end main in its except block.
GenerateReports ==
    /\ pc = "generate_reports"
    /\ \E f \in ReportFaults(IF db_type = postgresql THEN NumGroups(db.sales) ELSE 0) :
          LET out == generate_reports(db, db_type, files, current_time, f)
          IN  /\ db' = out.db
              /\ files' = out.files
              /\ report_result' = out.returned
              /\ report_log' = out.log
              /\ txn_log' = txn_log \o out.scopes
              /\ IF out.returned \in {"True", "False"}
                 THEN /\ pc' = "close"
                      /\ UNCHANGED <<result, exc, sales_data, exchange_rates,
                                     transformed_data>>
                 ELSE Return("1", "generate_reports")
    /\ UNCHANGED <<csv_file, api_response, call, returned>>
    /\ UNCHANGED <<env, run, current_date, conn>>

\* conn.close(); return 0
Close ==
    /\ pc = "close"
    /\ conn' = [conn EXCEPT !.state = "closed", !.closed = @ + 1]
    /\ Return("0", "none")
    /\ UNCHANGED <<csv_file, api_response, call, returned>>
    /\ UNCHANGED <<env, run, current_date, db, txn_log, report_result, report_log, files>>

Next ==
    \/ StartRun
    \/ LoadConfig
    \/ ConfigureLogging
    \/ ExtractCsv
    \/ ExtractRates
    \/ Transform
    \/ Connect
    \/ CreateTables
    \/ LoadData
    \/ ReportInit
    \/ GenerateReports
    \/ Close

Spec == Init /\ [][Next]_vars

----------------------------------------------------------------------------
(* The transformer alone, on every batch of RawBatches. *)

InitT ==
    /\ env = [DB_TYPE |-> sqlite, PG_PORT |-> Text_5432]
    /\ pc = "transform"
    /\ run = 1
    /\ result = "none"
    /\ exc = "none"
    /\ sales_data \in RawBatches(MaxBatchLen)
    /\ exchange_rates \in RateTables
    /\ transformed_data = NoFrame
    /\ current_date \in Dates
    /\ conn = [state |-> "none", opened |-> 0, closed |-> 0]
    /\ db = EmptyDb
    /\ txn_log = <<>>
    /\ report_result = "none"
    /\ report_log = {}
    /\ files = <<>>
    /\ csv_file = "unread"
    /\ api_response = NoResponse
    /\ call = NoCall
    /\ returned = NotReturned

NextT == Transform

SpecT == InitT /\ [][NextT]_vars

\* transform has returned its result.
Transformed == pc = "connect"

\* The raw record an output row was built from, by its index label.
RawOf(r) == sales_data.rows[r.index + 1]

\* The persisted columns of a row.
Content(row) == [c \in SalesColumns |-> row[c]]

\* What transform yields for one record alone.
Normalized(raw) == transform([columns |-> ExpectedColumns, rows |-> <<raw>>],
                             exchange_rates, current_date).rows[1]

\* The position of the last record with the order_id of record i.
LastOccurrence(i) ==
    CHOOSE j \in 1..Len(sales_data.rows) :
        /\ sales_data.rows[j].order_id = sales_data.rows[i].order_id
        /\ \A k \in (j + 1)..Len(sales_data.rows) :
               sales_data.rows[k].order_id # sales_data.rows[i].order_id

\* C1: for every order_id of the raw batch the output has exactly one row,
\* and it is the row built from the last record with that order_id.
C1_LastOccurrenceKept ==
    Transformed =>
        \A i \in 1..Len(sales_data.rows) :
            LET out == {j \in 1..Len(transformed_data.rows) :
                           transformed_data.rows[j].order_id = sales_data.rows[i].order_id}
            IN  /\ Cardinality(out) = 1
                /\ \A j \in out :
                       Content(transformed_data.rows[j])
                           = Content(Normalized(sales_data.rows[LastOccurrence(i)]))

\* C9: a row built from a record whose order_date is missing or cannot be
\* parsed has month "Unknown" and the processing date as its order_date; a
\* row built from a record with a parseable date has the YYYY-MM of that date
\* as its month.
C9_MonthBeforeDefault ==
    Transformed =>
        \A j \in 1..Len(transformed_data.rows) :
            LET r   == transformed_data.rows[j]
                raw == RawOf(r)
            IN  IF isna(to_datetime(raw.order_date))
                THEN r.month = Unknown /\ r.order_date = strftime_Ymd(current_date)
                ELSE r.month = SubSeq(raw.order_date, 1, 7) /\ r.order_date = raw.order_date

\* C9's case: a record with a date that is not a calendar date was transformed.
C9_Witness ==
    /\ Transformed
    /\ \E j \in 1..Len(transformed_data.rows) :
          /\ RawOf(transformed_data.rows[j]).order_date = Text_baddate
          /\ transformed_data.rows[j].month = Unknown
          /\ transformed_data.rows[j].order_date = strftime_Ymd(current_date)

\* C10: every row returned by transform has an affiliate_name, a category, a
\* currency, an order_date and a sales_amount, and where the record had none
\* (or a malformed one) it is "Unknown", "Uncategorized", "USD", the
\* processing date and 0.
C10_NoNullAfterTransform ==
    Transformed =>
        \A j \in 1..Len(transformed_data.rows) :
            LET r   == transformed_data.rows[j]
                raw == RawOf(r)
            IN  /\ notna(r.affiliate_name) /\ notna(r.category) /\ notna(r.currency)
                /\ notna(r.order_date) /\ notna(r.sales_amount)
                /\ isna(raw.affiliate_name) => r.affiliate_name = Unknown
                /\ isna(raw.category) => r.category = Uncategorized
                /\ isna(raw.currency) => r.currency = USD
                /\ raw.order_date \in {NA, Text_baddate}
                       => r.order_date = strftime_Ymd(current_date)
                /\ raw.sales_amount \in {NA, Text_abc} => r.sales_amount = <<0>>

\* C10's case: a record with every one of the five fields missing or
\* malformed was transformed.
C10_Witness ==
    /\ Transformed
    /\ \E j \in 1..Len(transformed_data.rows) :
          LET raw == RawOf(transformed_data.rows[j])
          IN  /\ isna(raw.affiliate_name) /\ isna(raw.category) /\ isna(raw.currency)
              /\ raw.order_date = Text_baddate /\ raw.sales_amount = Text_abc

----------------------------------------------------------------------------
(* Direct calls of single functions, on arguments main() never passes. *)

JPY == <<"J", "P", "Y">>

\* Amounts: missing, zero, positive, negative.
Amounts == {NA, <<0>>, <<100>>, <<0 - 100>>}

\* Rate tables: the fallback, a table with a USD rate other than 1, a zero
\* rate, a negative rate, no rate at all.
ConvertRates ==
    {exchange_rate_fallback,
     << <<USD, 200>>, <<EUR, 50>> >>,
     << <<EUR, 0>> >>,
     << <<EUR, 0 - 50>> >>,
     <<>>}

ConvertCalls ==
    [fn : {"_convert_to_usd"}, amount : Amounts, currency : {NA, USD, EUR, JPY},
     rates : ConvertRates, float64 : BOOLEAN]

mysql == <<"m", "y", "s", "q", "l">>

\* Backend types: the two dialects, one of them in another case, and three
\* that are no dialect (the last is the empty string).
DbTypes == {sqlite, postgresql, <<"S", "Q", "L", "i", "t", "e">>, mysql,
            <<"o", "r", "a", "c", "l", "e">>, <<>>}

ConnectCalls == [fn : {"get_database_connection"}, type : DbTypes, fault : BOOLEAN]

\* The batch and rate table a direct load_data is given.
LoaderFrame ==
    transform(read_csv(ExpectedColumns,
                       <<[order_id |-> 7, affiliate_name |-> Text_A,
                          sales_amount |-> Text_100, currency |-> EUR,
                          order_date |-> Text_date, category |-> Text_Tech]>>),
              exchange_rate_fallback, ClockDate(1))

LoaderCalls == [fn : {"create_tables", "load_data"}, type : DbTypes, fail_at : 0..5]

\* The backends a direct loader call finds: empty, or with the tables of
\* either dialect.
LoaderDbs ==
    {EmptyDb, create_tables(EmptyDb, sqlite, 2).db, create_tables(EmptyDb, postgresql, 5).db}

InitCall ==
    /\ env = [DB_TYPE |-> sqlite, PG_PORT |-> Text_5432]
    /\ pc = "call"
    /\ run = 1
    /\ result = "none"
    /\ exc = "none"
    /\ sales_data = NoFrame
    /\ exchange_rates = <<>>
    /\ transformed_data = NoFrame
    /\ current_date = ClockDate(1)
    /\ conn = [state |-> "none", opened |-> 0, closed |-> 0]
    /\ call \in ConvertCalls \cup ConnectCalls \cup LoaderCalls
    /\ db \in IF call.fn \in {"create_tables", "load_data"} THEN LoaderDbs ELSE {EmptyDb}
    /\ txn_log = <<>>
    /\ report_result = "none"
    /\ report_log = {}
    /\ files = <<>>
    /\ csv_file = "unread"
    /\ api_response = NoResponse
    /\ returned = NotReturned

\* What a direct call leaves alone.
CallFrame ==
    UNCHANGED <<env, pc, run, result, exc, sales_data, exchange_rates, transformed_data,
                current_date, report_result, report_log, files, csv_file,
                api_response, call>>

\* transformer._convert_to_usd(amount, currency, rates)
Call_convert_to_usd ==
    /\ call.fn = "_convert_to_usd" /\ ~returned.done
    /\ returned' = [done |-> TRUE]
                   @@ _convert_to_usd_of(call.amount, call.currency, call.rates,
                                         call.float64)
    /\ UNCHANGED <<conn, db, txn_log>>
    /\ CallFrame

\* get_database_connection({'type': type, ...})
Call_get_database_connection ==
    /\ call.fn = "get_database_connection" /\ ~returned.done
    /\ LET out == get_database_connection([type |-> call.type], call.fault)
       IN  /\ returned' = [done |-> TRUE, raised |-> out.raised]
           /\ conn' = IF out.raised THEN conn
                      ELSE [conn EXCEPT !.state = "open", !.opened = @ + 1]
    /\ UNCHANGED <<db, txn_log>>
    /\ CallFrame

\* DatabaseLoader(conn, type).create_tables()
Call_create_tables ==
    /\ call.fn = "create_tables" /\ ~returned.done
    /\ LET out == create_tables(db, lower(call.type), call.fail_at)
       IN  /\ returned' = [done |-> TRUE, raised |-> out.raised]
           /\ db' = out.db
           /\ txn_log' = txn_log \o out.scopes
    /\ UNCHANGED conn
    /\ CallFrame

\* DatabaseLoader(conn, type).load_data(df, rates)
Call_load_data ==
    /\ call.fn = "load_data" /\ ~returned.done
    /\ LET out == load_data(db, lower(call.type), LoaderFrame, exchange_rate_fallback,
                            current_time, call.fail_at)
       IN  /\ returned' = [done |-> TRUE, raised |-> out.raised]
           /\ db' = out.db
           /\ txn_log' = txn_log \o out.scopes
    /\ UNCHANGED conn
    /\ CallFrame

NextCall ==
    \/ Call_convert_to_usd
    \/ Call_get_database_connection
    \/ Call_create_tables
    \/ Call_load_data

SpecCall == InitCall /\ [][NextCall]_vars

\* A direct call of fn has returned or raised.
Called(fn) == call.fn = fn /\ returned.done

\* C11: the conversion never raises, and its result is a finite number that
\* is not negative whenever the amount is a finite number that is not
\* negative, whatever the rate table holds.
C11_ConversionSafe ==
    Called("_convert_to_usd") =>
        /\ ~returned.raised
        /\ (isfinite(call.amount) /\ call.amount[1] >= 0)
               => (isfinite(returned.value) /\ returned.value[1] >= 0)

\* The quotient of amount by a rate in hundredths, as a whole number.
IsQuotient(q, amount, rate) ==
    IF rate > 0
    THEN q * rate <= amount * 100 /\ amount * 100 < (q + 1) * rate
    ELSE q * rate >= amount * 100 /\ amount * 100 > (q + 1) * rate

\* C12: the conversion returns 0 when the amount or the currency is missing,
\* the amount itself when the currency is USD, and otherwise the amount
\* divided by the table's rate for the currency, or by 1.0 when the table has
\* no rate for it (a zero rate has no quotient and is left out).
C12_ConversionValue ==
    Called("_convert_to_usd") =>
        LET rate == IF \E i \in 1..Len(call.rates) : call.rates[i][1] = call.currency
                    THEN call.rates[CHOOSE i \in 1..Len(call.rates) :
                                        call.rates[i][1] = call.currency][2]
                    ELSE 100
        IN  IF isna(call.amount) \/ isna(call.currency)
            THEN returned.value = <<0>>
            ELSE IF call.currency = USD
            THEN returned.value = call.amount
            ELSE rate # 0 =>
                     /\ isfinite(returned.value)
                     /\ IsQuotient(returned.value[1], call.amount[1], rate)

\* C12's case: a USD amount was converted under a table whose USD rate is
\* not 1, and an amount in a currency the table does not have.
C12_Witness ==
    /\ Called("_convert_to_usd")
    /\ call.amount = <<100>>
    /\ \/ call.currency = USD /\ call.rates = << <<USD, 200>>, <<EUR, 50>> >>
       \/ call.currency = JPY /\ call.rates = exchange_rate_fallback

----------------------------------------------------------------------------
(* Claims about the pipeline runs. *)

\* main() has ended.
Ended == pc = "idle" /\ result # "none"

ArtifactNames ==
    {"affiliate_sales.csv", "category_sales.csv", "monthly_sales.csv", "sales_report.pdf"}

\* Every artifact of a report run was produced: the three exports, a
\* rendered document and, on the client-server dialect, the stored aggregates.
AllArtifacts ==
    /\ ArtifactNames \subseteq DOMAIN files
    /\ Len(files["sales_report.pdf"]) > 0
    /\ db_type = postgresql =>
           \E i \in 1..Len(txn_log) :
               txn_log[i].op = "store_aggregates" /\ txn_log[i].end = "commit"

\* C2: generate_reports returns False when a step of it failed, and True only
\* when every artifact was produced.
C2_FalseOnAnyFailure ==
    /\ (report_result # "none" /\ report_log # {}) => report_result = "False"
    /\ report_result = "True" => AllArtifacts

\* C3: a load_data that fails leaves exchange_rates and sales as they were
\* before the call, and its error reaches main, which returns 1.
C3_LoadAllOrNothing ==
    [][(pc = "load_data" /\ pc' # "report_init")
          => /\ db'.exchange_rates = db.exchange_rates
             /\ db'.sales = db.sales
             /\ result' = "1" /\ exc' = "load_data"]_vars

\* C3's case: a load failed after it had executed statements.
C3_Witness ==
    /\ Ended /\ exc = "load_data"
    /\ txn_log[Len(txn_log)].op = "load_data"
    /\ txn_log[Len(txn_log)].executed > Len(exchange_rate_fallback)
    /\ txn_log[Len(txn_log)].end = "rollback"

\* load_data has just returned.
Loaded == pc = "report_init"

\* C4: after load_data has loaded a batch, loading the same batch again
\* leaves the sales table as it is.
C4_LoadIdempotent ==
    Loaded =>
        load_data(db, db_type, transformed_data, exchange_rates, current_time,
                  Len(exchange_rates) + Len(transformed_data.rows)).db.sales
        = db.sales

\* C4's case: a batch was loaded into a sales table that held a row of the
\* batch and a row that is not of the batch.
C4_Witness ==
    /\ Loaded /\ run = 2
    /\ Len(transformed_data.rows) > 0
    /\ \E k \in DOMAIN db.sales :
          \A j \in 1..Len(transformed_data.rows) : transformed_data.rows[j].order_id # k

\* The table that a full recompute of a grouping gives: key -> total.
Recomputed(table, col) ==
    [g \in {table[k][col] : k \in DOMAIN table} |->
        <<SumUsd(table, {k \in DOMAIN table : table[k][col] = g})>>]

IsRecompute(fact, table, col) ==
    /\ DOMAIN fact = DOMAIN Recomputed(table, col)
    /\ \A g \in DOMAIN fact : fact[g].total_sales_usd = Recomputed(table, col)[g]

\* C5: on the client-server dialect, after a generate_reports in which no
\* step failed, each fact table is the full recompute of the sales table.
C5_FactsAreFullRecompute ==
    (db_type = postgresql /\ pc = "close" /\ report_result = "True" /\ report_log = {})
        => /\ IsRecompute(db.fact_affiliate_sales, db.sales, "affiliate_name")
           /\ IsRecompute(db.fact_category_sales, db.sales, "category")
           /\ IsRecompute(db.fact_monthly_sales, db.sales, "month")

\* C6: every write scope that raised nothing was committed; every write
\* scope that raised was rolled back and its write operation raised to its
\* caller.
C6_WritePathsPropagate ==
    \A i \in 1..Len(txn_log) :
        IF txn_log[i].body_raised
        THEN txn_log[i].end = "rollback" /\ txn_log[i].outcome = "raised"
        ELSE txn_log[i].end = "commit"

\* C7: main never lets an exception escape.
C7_MainNeverRaises == result # "raised"

\* C8: when main has ended, it has opened at most one connection and closed
\* every connection it opened exactly once.
C8_ConnectionClosed == Ended => (conn.opened <= 1 /\ conn.closed = conn.opened)

\* C13: extract never raises and main goes on to the transformation: with
\* the mapping of the response when it is a 200 with a rates field, and with
\* exactly the configured fallback rates after any other status, a request
\* that raised, or a body without rates.
C13_RatesOrFallback ==
    [][pc = "extract_rates"
          => /\ pc' = "transform" /\ result' = "none" /\ exc' = "none"
             /\ exchange_rates' =
                    IF /\ ~api_response'.error
                       /\ api_response'.status_code = 200
                       /\ api_response'.has_rates
                    THEN api_response'.rates
                    ELSE << <<USD, 100>>, <<EUR, 91>>, <<GBP, 78>> >>]_vars

\* C13's case: the rate source answered 500 and the run went on with the
\* fallback rates.
C13_Witness ==
    /\ pc = "transform"
    /\ api_response.status_code = 500
    /\ exchange_rates = exchange_rate_fallback

\* The sum of the totals of the first n rows of an aggregate result.
RECURSIVE SumTotals(_, _)
SumTotals(rows, n) ==
    IF n = 0 THEN 0 ELSE rows[n].total_sales_usd[1] + SumTotals(rows, n - 1)

\* An aggregate result has one row per key of the table's column col, with
\* the sum of the rows of that key, and its totals add up to the summary's.
Consistent(frame, table, col, summary) ==
    /\ \A g \in {table[k][col] : k \in DOMAIN table} :
           \E i \in 1..Len(frame.rows) :
               /\ frame.rows[i][col] = g
               /\ frame.rows[i].total_sales_usd
                      = <<SumUsd(table, {k \in DOMAIN table : table[k][col] = g})>>
               /\ \A j \in 1..Len(frame.rows) : frame.rows[j][col] = g => j = i
    /\ \A i \in 1..Len(frame.rows) :
           frame.rows[i][col] \in {table[k][col] : k \in DOMAIN table}
    /\ summary.total_sales_usd = <<SumTotals(frame.rows, Len(frame.rows))>>

\* C14: for every persisted sales table, each of the three aggregate results
\* has exactly one row per group key holding the sum of the rows of that key,
\* and the totals of each result add up to the summary total.
C14_AggregatesConsistent ==
    "sales" \in db.tables =>
        \A col \in {"affiliate_name", "category", "month"} :
            Consistent(GroupFrame(db.sales, col), db.sales, col, Summary(db.sales))

\* The batch of the run is a file with the expected header and no record.
EmptyBatch == ExpectedColumns \subseteq sales_data.columns /\ Len(sales_data.rows) = 0

\* generate_reports meets no fault of its surroundings.
NoFault == [query |-> FALSE, csv |-> 0, store |-> NumGroups(db.sales), pdf |-> FALSE]

\* C15: a run on an empty batch gets through the transformation, and its
\* report over the empty sales table writes the three exports without a row
\* and renders the document, no step failing.
C15_EmptyBatchReports ==
    /\ [][(pc = "transform" /\ EmptyBatch) => pc' = "connect"]_vars
    /\ []((pc = "generate_reports" /\ EmptyBatch /\ DOMAIN db.sales = {})
             => LET out == generate_reports(db, db_type, files, current_time, NoFault)
                IN  /\ out.returned = "True" /\ out.log = {}
                    /\ ArtifactNames \subseteq DOMAIN out.files
                    /\ \A name \in ArtifactNames \ {"sales_report.pdf"} :
                           Len(out.files[name]) = 0
                    /\ Len(out.files["sales_report.pdf"]) > 0)

FactTables == {"fact_affiliate_sales", "fact_category_sales", "fact_monthly_sales"}

\* C17: generate_reports, ending well or not, leaves sales and exchange_rates
\* as they are; on the embedded dialect it writes nothing; on the
\* client-server dialect an aggregate store that failed leaves the three fact
\* tables as they were.
C17_ReportsKeepData ==
    [][pc = "generate_reports"
          => /\ db'.sales = db.sales
             /\ db'.exchange_rates = db.exchange_rates
             /\ db'.tables = db.tables
             /\ db_type = sqlite => (db' = db /\ txn_log' = txn_log)
             /\ (\E i \in (Len(txn_log) + 1)..Len(txn_log') : txn_log'[i].end = "rollback")
                    => \A t \in FactTables : db'[t] = db[t]]_vars

\* C17's case: on the client-server dialect the aggregate store failed after
\* it had executed a statement.
C17_Witness ==
    /\ pc = "close" /\ db_type = postgresql
    /\ txn_log[Len(txn_log)].op = "store_aggregates"
    /\ txn_log[Len(txn_log)].end = "rollback"
    /\ txn_log[Len(txn_log)].executed > 0

\* C18: a run that found no source file has ended with status 1 on the
\* reader's FileNotFoundError, and none of its later phases ran: it holds no
\* rate table, opened no connection, began no write and produced no report.
C18_MissingFileAborts ==
    csv_file = "missing"
        => /\ pc = "idle" /\ result = "1" /\ exc = "FileNotFoundError"
           /\ exchange_rates = <<>> /\ api_response = NoResponse
           /\ conn.opened = 0
           /\ txn_log = <<>>
           /\ report_result = "none" /\ files = <<>>

\* C18's case: the second run found no file, the first having filled the
\* backend.
C18_Witness ==
    /\ csv_file = "missing" /\ run = 2 /\ Ended
    /\ DOMAIN db.sales # {}

\* C19: get_database_connection, create_tables and load_data each raise when
\* the backend type, whatever its case, is neither of the two dialects; the
\* call opens no connection, creates and writes no table and begins no
\* transaction.
C19_UnsupportedTypeRaises ==
    [][(/\ call.fn \in {"get_database_connection", "create_tables", "load_data"}
        /\ lower(call.type) \notin {sqlite, postgresql})
          => /\ returned'.done /\ returned'.raised
             /\ conn' = conn
             /\ db' = db
             /\ txn_log' = txn_log]_vars

\* C19's case: load_data with the type mysql raised, against a backend that
\* has the tables.
C19_Witness ==
    /\ Called("load_data") /\ call.type = mysql
    /\ returned.raised
    /\ "sales" \in db.tables

\* The steps of main, in the order of its text.
PhaseOrder ==
    <<"load_config", "configure_logging", "extract_csv", "extract_rates", "transform",
      "connect", "create_tables", "load_data", "report_init", "generate_reports",
      "close">>

\* Step q is the one after step p.
Follows(p, q) ==
    \E i \in 1..(Len(PhaseOrder) - 1) : PhaseOrder[i] = p /\ PhaseOrder[i + 1] = q

\* The writes of a run, in the order they may begin.
WriteOrder == <<"create_tables", "load_data", "store_aggregates">>

\* The scopes of a run so far are the writes in their order, one scope each,
\* every scope closed by commit or rollback, and every scope that another
\* one followed closed by commit.
WritesInOrder(log) ==
    /\ Len(log) <= Len(WriteOrder)
    /\ \A i \in 1..Len(log) :
          /\ log[i].op = WriteOrder[i]
          /\ log[i].end \in {"commit", "rollback"}
          /\ i < Len(log) => (log[i].end = "commit" /\ ~log[i].body_raised)

\* A step of main keeps the order: it enters a step only from the step before
\* it and only when that step raised nothing; the transformation starts with
\* the extracted batch, the load with the committed tables, the report with
\* the committed load; the scopes are the writes in their order.
StepInOrder ==
    /\ pc = "idle" => pc' = "load_config"
    /\ (pc # "idle" /\ pc' # "idle")
          => /\ Follows(pc, pc')
             /\ result' = "none" /\ exc' = "none"
    /\ pc' \in {"transform", "connect"} => sales_data' # NoFrame
    /\ pc' = "connect" => transformed_data' # NoFrame
    /\ pc' = "create_tables" => txn_log' = <<>>
    /\ pc' = "load_data"
          => (Len(txn_log') = 1 /\ txn_log'[1].end = "commit")
    /\ pc' \in {"report_init", "generate_reports"}
          => (Len(txn_log') = 2 /\ txn_log'[2].end = "commit")
    /\ WritesInOrder(txn_log')

\* A step in which a scope of one of the writes in ops closed by rollback
\* leaves the backend as it was before the scope began.
RollbackUndoes(ops) ==
    \A i \in (Len(txn_log) + 1)..Len(txn_log') :
       (txn_log'[i].op \in ops /\ txn_log'[i].end = "rollback") => db' = db

C21_CreateTablesIdempotent ==
    [][(pc = "create_tables" /\ pc' = "load_data")
          => /\ db'.tables = {"exchange_rates", "sales"}
                                \cup (IF db_type = postgresql THEN FactTables ELSE {})
             /\ \A t \in {"exchange_rates", "sales"} \cup FactTables : db'[t] = db[t]
             /\ db.tables = db'.tables => db' = db
             /\ create_tables(db', db_type, 5).db = db']_vars

\* C21's case: the second run's create_tables returned on a client-server
\* backend that holds the first run's rows.
C21_Witness ==
    /\ run = 2 /\ pc = "load_data" /\ db_type = postgresql
    /\ FactTables \subseteq db.tables
    /\ DOMAIN db.sales # {} /\ DOMAIN db.exchange_rates # {}
    /\ DOMAIN db.fact_affiliate_sales # {}

\* The run's load was committed: extraction, transformation, connection,
\* create_tables and load_data all succeeded.
LoadSucceeded ==
    /\ Len(txn_log) >= 2
    /\ txn_log[2].op = "load_data" /\ txn_log[2].end = "commit"

\* C22: a run whose extraction, transformation, connection, create_tables
\* and load_data all succeeded ends with the connection closed and status 0,
\* whatever generate_reports returned.
C22_StatusIgnoresReports ==
    (Ended /\ LoadSucceeded)
        => (result = "0" /\ conn.state = "closed" /\ conn.closed = 1)

\* The order_ids of a batch, and the currencies of a rate table.
BatchKeys(df) == {df.rows[i].order_id : i \in 1..Len(df.rows)}

RateKeys(rates) == {rates[i][1] : i \in 1..Len(rates)}

\* C23: a load_data that returned deleted nothing: a sales row whose
\* order_id is not in the batch, and an exchange_rates row whose currency is
\* not in the rate table, is what it was; every row of the batch and every
\* entry of the rate table is stored whole, with the new values only; the
\* keys afterwards are the old keys and the new ones.
C23_LoadNeverDeletes ==
    [][(pc = "load_data" /\ pc' = "report_init")
          => /\ DOMAIN db'.sales = DOMAIN db.sales \cup BatchKeys(transformed_data)
             /\ \A k \in DOMAIN db.sales \ BatchKeys(transformed_data) :
                   db'.sales[k] = db.sales[k]
             /\ \A i \in 1..Len(transformed_data.rows) :
                   db'.sales[transformed_data.rows[i].order_id]
                       = [c \in SalesColumns |-> transformed_data.rows[i][c]]
             /\ DOMAIN db'.exchange_rates
                    = DOMAIN db.exchange_rates \cup RateKeys(exchange_rates)
             /\ \A k \in DOMAIN db.exchange_rates \ RateKeys(exchange_rates) :
                   db'.exchange_rates[k] = db.exchange_rates[k]
             /\ \A i \in 1..Len(exchange_rates) :
                   db'.exchange_rates[exchange_rates[i][1]]
                       = [currency   |-> exchange_rates[i][1],
                          rate       |-> <<exchange_rates[i][2]>>,
                          updated_at |-> current_time]
             /\ \A t \in FactTables : db'[t] = db[t]]_vars

\* C23's case: the second run's load returned; the backend holds a sale of
\* the first run that the second batch does not have, a rate of the first
\* run that the second rate table does not have, still with the first run's
\* time, and a rate that the second run wrote over.
C23_Witness ==
    /\ run = 2 /\ pc = "report_init"
    /\ DOMAIN db.sales \ BatchKeys(transformed_data) # {}
    /\ BatchKeys(transformed_data) # {}
    /\ \E k \in DOMAIN db.exchange_rates \ RateKeys(exchange_rates) :
          db.exchange_rates[k].updated_at = <<1>>
    /\ \E k \in RateKeys(exchange_rates) :
          /\ db.exchange_rates[k].updated_at = <<2>>
          /\ db.exchange_rates[k].rate # <<exchange_rate_fallback[2][2]>>

\* C24: every scope ended with commit or with rollback: with commit when its
\* body raised nothing, with rollback when its body raised; and the
\* exception of a body that raised left the scope: create_tables and
\* load_data raised it to main, the aggregate store caught it and logged its
\* failure.
C24_CommitXorRollback ==
    \A i \in 1..Len(txn_log) :
        /\ txn_log[i].end \in {"commit", "rollback"}
        /\ txn_log[i].end = "commit" <=> ~txn_log[i].body_raised
        /\ txn_log[i].body_raised
              => IF txn_log[i].op = "store_aggregates"
                 THEN "store_aggregates" \in report_log
                 ELSE txn_log[i].outcome = "raised" /\ result = "1"

\* C24's case: a load whose body raised after its first statement was rolled
\* back, behind a committed table creation.
C24_Witness ==
    /\ Len(txn_log) = 2
    /\ txn_log[1].end = "commit" /\ ~txn_log[1].body_raised
    /\ txn_log[2].op = "load_data" /\ txn_log[2].body_raised
    /\ txn_log[2].executed > 0 /\ txn_log[2].end = "rollback"

====
